---- MODULE Spec2Model ----
(***************************************************************************)
(* The client composition layer of authzed-node (src/src/v1.ts): three     *)
(* generated gRPC service clients (acl = Permissions, ns = Schema,         *)
(* watch = Watch) merged by the ZedClient proxy handler, adapted to        *)
(* promises by the ZedPromiseClient proxy handler, and exposed together by *)
(* the ZedCombinedClient proxy handler.                                    *)
(*                                                                         *)
(* A JavaScript value is a record [t, owner, name, kind, gen]:             *)
(*   t     : "undefined", "falsy", "object" or "function" (typeof)         *)
(*   owner : the object the value was read from or that created it         *)
(*   name  : the property name it is stored under                          *)
(*   kind  : for a function, what calling it does                          *)
(*   gen   : for an adapted callable, which build of it this instance is   *)
(***************************************************************************)
EXTENDS Naturals, Sequences, FiniteSets

VARIABLES
    members,          \* the own and inherited properties of acl, ns, watch
    creds,            \* the ChannelCredentials the three clients were built with
    promiseCache,     \* ZedPromiseClient.promiseCache
    built,            \* per name, how many adapted callables were ever built
    closeCalls,       \* per ServiceClient, how often its close() has run
    closeInvocations, \* how often the composed close() has been invoked
    calls,            \* the calls issued so far, in issue order
    got,              \* what the last property lookup returned
    lookups           \* how many property lookups were recorded in got

vars == <<members, creds, promiseCache, built, closeCalls, closeInvocations, calls, got, lookups>>

----------------------------------------------------------------------------
(* Bounds of the model *)

MaxCalls == 1
MaxMsgs == 2
MaxClose == 2
MaxLookups == 2
MaxConcurrent == 2
MaxConcMsgs == 1
MaxFrameCalls == 1
MaxFrameLookups == 1

Msgs == {"A", "B"}
Errs == {"E1", "E2"}

----------------------------------------------------------------------------
(* Values *)

Clients == {"acl", "ns", "watch"}

Undefined == [t |-> "undefined", owner |-> "none", name |-> "none", kind |-> "none", gen |-> 0]

Falsy(c, n) == [t |-> "falsy", owner |-> c, name |-> n, kind |-> "none", gen |-> 0]

Obj(c, n) == [t |-> "object", owner |-> c, name |-> n, kind |-> "none", gen |-> 0]

Fn(c, n, k) == [t |-> "function", owner |-> c, name |-> n, kind |-> k, gen |-> 0]

\* JavaScript truthiness, as tested by `if (x[name])`
Truthy(v) == v.t \in {"object", "function"}

\* The methods PermissionsServiceClient defines, with their call shape
PermissionsMethods ==
    [readRelationships |-> "stream", writeRelationships |-> "unary",
     deleteRelationships |-> "unary", checkPermission |-> "unary",
     expandPermissionTree |-> "unary", lookupResources |-> "stream",
     lookupSubjects |-> "stream"]

\* The methods SchemaServiceClient defines
SchemaMethods == [readSchema |-> "unary", writeSchema |-> "unary"]

\* The methods WatchServiceClient defines
WatchMethods == [watch |-> "stream"]

ServiceMethods(c) ==
    IF c = "acl" THEN PermissionsMethods
    ELSE IF c = "ns" THEN SchemaMethods
    ELSE WatchMethods

MethodNames == UNION {DOMAIN ServiceMethods(c) : c \in Clients}

\* A name no generated client defines; synthetic services may define it
SyntheticName == "synthetic"

Names == MethodNames \cup {"close", "promises", "_binaryOptions", "__proto__", SyntheticName}

\* What client c holds at each name after its constructor has run: its
\* generated methods, the close() it inherits from grpc.Client, the
\* _binaryOptions object its constructor stores, and its class prototype
ServiceClient(c) ==
    [n \in Names |->
        IF n \in DOMAIN ServiceMethods(c) THEN Fn(c, n, ServiceMethods(c)[n])
        ELSE IF n = "close" THEN Fn(c, "close", "grpcClose")
        ELSE IF n = "_binaryOptions" THEN Obj(c, "_binaryOptions")
        ELSE IF n = "__proto__" THEN Obj(c, "__proto__")
        ELSE Undefined]

----------------------------------------------------------------------------
(* ZedClient *)

\* ZedClient.close, the arrow function stored on the handler
ZedClient_close == Fn("ZedClient", "close", "closeAll")

\* ZedClient.get looking at watch before ns
ZedClient_get_watchBeforeNs(mem, name) ==
    IF name = "close" THEN ZedClient_close
    ELSE IF Truthy(mem["acl"][name]) THEN mem["acl"][name]
    ELSE IF Truthy(mem["watch"][name]) THEN mem["watch"][name]
    ELSE IF Truthy(mem["ns"][name]) THEN mem["ns"][name]
    ELSE Undefined

\* ZedClient.get without the special case for 'close'
ZedClient_get_noCloseCase(mem, name) ==
    IF Truthy(mem["acl"][name]) THEN mem["acl"][name]
    ELSE IF Truthy(mem["ns"][name]) THEN mem["ns"][name]
    ELSE IF Truthy(mem["watch"][name]) THEN mem["watch"][name]
    ELSE Undefined

\* ZedClient.get testing `!== undefined` where the code tests truthiness
ZedClient_get_definedTest(mem, name) ==
    IF name = "close" THEN ZedClient_close
    ELSE IF mem["acl"][name] # Undefined THEN mem["acl"][name]
    ELSE IF mem["ns"][name] # Undefined THEN mem["ns"][name]
    ELSE IF mem["watch"][name] # Undefined THEN mem["watch"][name]
    ELSE Undefined

\* ZedClient.get that never looks at watch
ZedClient_get_noWatch(mem, name) ==
    IF name = "close" THEN ZedClient_close
    ELSE IF Truthy(mem["acl"][name]) THEN mem["acl"][name]
    ELSE IF Truthy(mem["ns"][name]) THEN mem["ns"][name]
    ELSE Undefined

\* ZedClient.get
ZedClient_get(mem, name) ==
    IF name = "close" THEN ZedClient_close
    ELSE IF Truthy(mem["acl"][name]) THEN mem["acl"][name]
    ELSE IF Truthy(mem["ns"][name]) THEN mem["ns"][name]
    ELSE IF Truthy(mem["watch"][name]) THEN mem["watch"][name]
    ELSE Undefined

----------------------------------------------------------------------------
(* ZedPromiseClient *)

\* streamMethods with one name forgotten
streamMethods_missingOne == {"lookupResources", "lookupSubjects"}

streamMethods == {"readRelationships", "lookupResources", "lookupSubjects"}

NoEntry == [present |-> FALSE, form |-> "none", method |-> Undefined, gen |-> 0]

\* promisifyStream(clientMethod, this.client)
promisifyStream(clientMethod, gen) ==
    [present |-> TRUE, form |-> "promisifyStream", method |-> clientMethod, gen |-> gen]

\* clientMethod.bind(this.client), with the promisify forgotten
promisify_bindOnly(clientMethod, gen) ==
    [present |-> TRUE, form |-> "direct", method |-> clientMethod, gen |-> gen]

\* promisify(this.client[name]).bind(this.client)
promisify(clientMethod, gen) ==
    [present |-> TRUE, form |-> "promisify", method |-> clientMethod, gen |-> gen]

\* the cache test always failing
InCache_never(cache, name) == FALSE

\* The names the object literal `{}` of promiseCache inherits from
\* Object.prototype
InheritedByCache == {"__proto__"}

\* `name in this.promiseCache`: own and inherited properties
InCache(cache, name) == cache[name].present \/ name \in InheritedByCache

\* Whether ZedPromiseClient.get builds a new adapted callable for name
Builds(mem, cache, name) ==
    /\ ~InCache(cache, name)
    /\ ZedClient_get(mem, name) # Undefined
    /\ \/ name \in streamMethods
       \/ ZedClient_get(mem, name).t = "function"

\* ZedPromiseClient.get testing typeof before streamMethods
ZedPromiseClient_cache_typeofFirst(mem, cache, blt, name) ==
    IF Builds(mem, cache, name)
    THEN [cache EXCEPT ![name] =
            IF ZedClient_get(mem, name).t = "function"
            THEN promisify(ZedClient_get(mem, name), blt[name] + 1)
            ELSE promisifyStream(ZedClient_get(mem, name), blt[name] + 1)]
    ELSE cache

\* ZedPromiseClient.get storing in the cache whatever the name resolves to
ZedPromiseClient_cache_cachesAll(mem, cache, blt, name) ==
    IF ~InCache(cache, name) /\ ZedClient_get(mem, name) # Undefined
    THEN [cache EXCEPT ![name] =
            IF name \in streamMethods
            THEN promisifyStream(ZedClient_get(mem, name), blt[name] + 1)
            ELSE IF ZedClient_get(mem, name).t = "function"
            THEN promisify(ZedClient_get(mem, name), blt[name] + 1)
            ELSE [present |-> TRUE, form |-> "direct",
                  method |-> ZedClient_get(mem, name), gen |-> blt[name] + 1]]
    ELSE cache

\* The promiseCache after ZedPromiseClient.get(name)
ZedPromiseClient_cache(mem, cache, blt, name) ==
    IF Builds(mem, cache, name)
    THEN [cache EXCEPT ![name] =
            IF name \in streamMethods
            THEN promisifyStream(ZedClient_get(mem, name), blt[name] + 1)
            ELSE promisify(ZedClient_get(mem, name), blt[name] + 1)]
    ELSE cache

\* The build counter after ZedPromiseClient.get(name)
ZedPromiseClient_built(mem, cache, blt, name) ==
    IF Builds(mem, cache, name) THEN [blt EXCEPT ![name] = @ + 1] ELSE blt

\* The adapted callable a cache entry holds, as a value
Adapted(name, entry) ==
    IF entry.present
    THEN [t |-> "function", owner |-> "ZedPromiseClient", name |-> name,
          kind |-> entry.form, gen |-> entry.gen]
    ELSE Undefined

\* `this.promiseCache[name]`
CacheRead(cache, name) ==
    IF cache[name].present THEN Adapted(name, cache[name])
    ELSE IF name \in InheritedByCache THEN Obj("Object.prototype", name)
    ELSE Undefined

\* What ZedPromiseClient.get(name) returns
ZedPromiseClient_get(mem, cache, blt, name) ==
    IF /\ ~InCache(cache, name)
       /\ ZedClient_get(mem, name) # Undefined
       /\ name \notin streamMethods
       /\ ZedClient_get(mem, name).t # "function"
    THEN ZedClient_get(mem, name)
    ELSE CacheRead(ZedPromiseClient_cache(mem, cache, blt, name), name)

----------------------------------------------------------------------------
(* ZedCombinedClient *)

\* The ZedPromiseClient proxy held in ZedCombinedClient.promiseClient
promiseClient == Obj("ZedCombinedClient", "promiseClient")

\* ZedCombinedClient.get without the 'promises' accessor
ZedCombinedClient_get_noPromises(mem, name) == ZedClient_get(mem, name)

\* ZedCombinedClient.get
ZedCombinedClient_get(mem, name) ==
    IF name = "promises" THEN promiseClient ELSE ZedClient_get(mem, name)

----------------------------------------------------------------------------
(* Calls *)

\* The ServiceClient whose fields a stub method reads through `this`
\* (this._binaryOptions, this.makeUnaryRequest, this.makeServerStreamRequest)
\* when it is invoked with the given receiver
RunsOn(mem, receiver) ==
    IF receiver \in Clients THEN receiver
    ELSE IF receiver = "ZedCombinedClient"
         THEN ZedCombinedClient_get(mem, "_binaryOptions").owner
         ELSE ZedClient_get(mem, "_binaryOptions").owner

NoReply == [called |-> FALSE, err |-> "null", value |-> "undefined"]

\* The (err, value) pair the stub hands to the callback of a unary call
ErrReply(e) == [called |-> TRUE, err |-> e, value |-> "undefined"]

OkReply(m) == [called |-> TRUE, err |-> "null", value |-> m]

Replies == {ErrReply(e) : e \in Errs} \cup {OkReply(m) : m \in Msgs}

NoPromise == [state |-> "none", arr |-> <<>>, val |-> "undefined"]

Pending == [state |-> "pending", arr |-> <<>>, val |-> "undefined"]

\* resolve(v) settling the promise again after it was settled
Resolve_overwrites(p, arr, val) == [state |-> "resolved", arr |-> arr, val |-> val]

\* resolve(v) and reject(e) of a Promise: only the first settles it
Resolve(p, arr, val) ==
    IF p.state = "pending" THEN [state |-> "resolved", arr |-> arr, val |-> val] ELSE p

Reject(p, e) ==
    IF p.state = "pending" THEN [state |-> "rejected", arr |-> <<>>, val |-> e] ELSE p

\* The callback util.promisify appends to the arguments
PromisifyCallback(p, reply) ==
    IF reply.err # "null" THEN Reject(p, reply.err) ELSE Resolve(p, <<>>, reply.value)

\* The 'data', 'end' and 'error' handlers promisifyStream registers
OnData(results, m) == Append(results, m)

OnEnd(p, results) == Resolve(p, results, "undefined")

OnError(p, e) == Reject(p, e)

\* The argument lists a caller of the promise form of a unary method may
\* supply: the overloads of the stub without their callback
ArgLists ==
    {<<"input">>, <<"input", "metadata">>, <<"input", "options">>,
     <<"input", "metadata", "options">>}

\* The argument lists tried for the promise form of method n: every overload
\* for writeRelationships, the request alone for the others
ArgListsOf(n) == IF n = "writeRelationships" THEN ArgLists ELSE {<<"input">>}

\* The wrapper of util.promisify putting its callback first
PromisifyArgs_callbackFirst(args) == <<"callback">> \o args

\* The arguments the wrapper of util.promisify calls the original with:
\* the caller's, then its own callback
PromisifyArgs(args) == Append(args, "callback")

\* The record of a call of method through the given surface
NewCall(mem, surface, name, method, form, receiver, args) ==
    [surface |-> surface, name |-> name, method |-> method, form |-> form,
     receiver |-> receiver, ranOn |-> RunsOn(mem, receiver),
     args |-> args,
     passed |-> IF form = "promisify" THEN PromisifyArgs(args) ELSE args,
     stream |-> IF method.kind = "stream" THEN "open" ELSE "none",
     streamErr |-> "null", received |-> <<>>, results |-> <<>>,
     reply |-> NoReply, cb |-> NoReply,
     promise |-> IF surface = "promises" THEN Pending ELSE NoPromise]

\* The calls after the stream of call i emitted message m: the 'data'
\* handler of that invocation appends it to that invocation's buffer
DataDelivered(cs, i, m) ==
    [cs EXCEPT
        ![i].received = Append(@, m),
        ![i].results = IF cs[i].form = "promisifyStream" THEN OnData(@, m) ELSE @]

\* The composed close forgetting the watch client
CloseEffect_noWatch(mem, fn, receiver, cc) ==
    IF fn.kind = "closeAll" THEN [c \in Clients |-> IF c = "watch" THEN cc[c] ELSE cc[c] + 1]
    ELSE IF fn.kind = "grpcClose" THEN [cc EXCEPT ![RunsOn(mem, receiver)] = @ + 1]
    ELSE cc

\* What invoking the function that 'close' resolved to does to the three
\* connections: the composed close closes each, grpc.Client's own close
\* closes the connection its receiver resolves to
CloseEffect(mem, fn, receiver, cc) ==
    IF fn.kind = "closeAll" THEN [c \in Clients |-> cc[c] + 1]
    ELSE IF fn.kind = "grpcClose" THEN [cc EXCEPT ![RunsOn(mem, receiver)] = @ + 1]
    ELSE cc

----------------------------------------------------------------------------
(* Construction *)

\* util.createClientCreds(endpoint, token, security)
createClientCreds(token) == [kind |-> "token", token |-> token, cert |-> "none"]

\* util.createClientCredsWithCustomCert(token, certificate)
createClientCredsWithCustomCert(token, cert) ==
    [kind |-> "token+cert", token |-> token, cert |-> cert]

\* Credentials the caller built itself
PrebuiltCreds == [kind |-> "prebuilt", token |-> "none", cert |-> "none"]

\* ZedCombinedClient.create: the three ServiceClients built with creds, the
\* ZedClient over them and the ZedPromiseClient over that
ZedCombinedClient_create(cr) ==
    [members |-> [c \in Clients |-> ServiceClient(c)], creds |-> cr]

NewClientWithChannelCredentials(cr) == ZedCombinedClient_create(cr)

NewClient(token) == NewClientWithChannelCredentials(createClientCreds(token))

\* NewClientWithCustomCert composing the Permissions client alone
NewClientWithCustomCert_permissionsOnly(token, cert) ==
    [members |-> [c \in Clients |->
                    IF c = "acl" THEN ServiceClient(c) ELSE [n \in Names |-> Undefined]],
     creds |-> createClientCredsWithCustomCert(token, cert)]

NewClientWithCustomCert(token, cert) ==
    NewClientWithChannelCredentials(createClientCredsWithCustomCert(token, cert))

----------------------------------------------------------------------------
(* Initial state *)

NoLookup == [name |-> "none", unified |-> Undefined, combined |-> Undefined,
             promises |-> Undefined]

\* A client from NewClientWithChannelCredentials: three ServiceClients, the
\* ZedClient over them, the ZedPromiseClient with an empty cache
Init ==
    /\ members = NewClientWithChannelCredentials(PrebuiltCreds).members
    /\ creds = NewClientWithChannelCredentials(PrebuiltCreds).creds
    /\ promiseCache = [n \in Names |-> NoEntry]
    /\ built = [n \in Names |-> 0]
    /\ closeCalls = [c \in Clients |-> 0]
    /\ closeInvocations = 0
    /\ calls = <<>>
    /\ got = NoLookup
    /\ lookups = 0

----------------------------------------------------------------------------
(* Operations *)

\* client.<name>(...args, callback) or client.<name>(...args)
CallCallbackB(n, maxCalls) ==
    /\ Len(calls) < maxCalls
    /\ ZedCombinedClient_get(members, n).t = "function"
    /\ ZedCombinedClient_get(members, n).kind \in {"unary", "stream"}
    /\ calls' = Append(calls, NewCall(members, "callback", n,
                    ZedCombinedClient_get(members, n), "direct", "ZedCombinedClient",
                    IF ZedCombinedClient_get(members, n).kind = "unary"
                    THEN <<"input", "callback">> ELSE <<"input">>))
    /\ UNCHANGED <<members, creds, promiseCache, built, closeCalls, closeInvocations, got, lookups>>

CallCallback(n) == CallCallbackB(n, MaxCalls)

\* client.close()
Close ==
    /\ closeInvocations < MaxClose
    /\ closeInvocations' = closeInvocations + 1
    /\ closeCalls' = CloseEffect(members, ZedCombinedClient_get(members, "close"),
                                 "ZedCombinedClient", closeCalls)
    /\ UNCHANGED <<members, creds, promiseCache, built, calls, got, lookups>>

\* The open calls made through the memoized callable of name n
OpenThrough(n) ==
    {j \in DOMAIN calls : calls[j].surface = "promises" /\ calls[j].name = n
                            /\ calls[j].stream = "open"}

\* ZedPromiseClient.get memoizing the state of the invocation with the
\* callable: a call starts on the buffer of an open call of the same name
CallPromiseB_sharedState(n, maxCalls) ==
    /\ Len(calls) < maxCalls
    /\ ZedCombinedClient_get(members, "promises") = promiseClient
    /\ ZedPromiseClient_get(members, promiseCache, built, n).owner = "ZedPromiseClient"
    /\ promiseCache' = ZedPromiseClient_cache(members, promiseCache, built, n)
    /\ built' = ZedPromiseClient_built(members, promiseCache, built, n)
    /\ promiseCache'[n].method.kind \in {"unary", "stream"}
    /\ \E args \in ArgListsOf(n) :
          calls' = Append(calls,
              [NewCall(members, "promises", n, promiseCache'[n].method,
                       promiseCache'[n].form, "ZedClient", args)
                  EXCEPT !.results = IF OpenThrough(n) = {} THEN <<>>
                                     ELSE calls[CHOOSE j \in OpenThrough(n) : TRUE].results])
    /\ UNCHANGED <<members, creds, closeCalls, closeInvocations, got, lookups>>

\* client.promises.<name>(...args) for a service method, while fewer than
\* maxCalls calls were made
CallPromiseB(n, maxCalls) ==
    /\ Len(calls) < maxCalls
    /\ ZedCombinedClient_get(members, "promises") = promiseClient
    /\ ZedPromiseClient_get(members, promiseCache, built, n).owner = "ZedPromiseClient"
    /\ promiseCache' = ZedPromiseClient_cache(members, promiseCache, built, n)
    /\ built' = ZedPromiseClient_built(members, promiseCache, built, n)
    /\ promiseCache'[n].method.kind \in {"unary", "stream"}
    /\ \E args \in ArgListsOf(n) :
          calls' = Append(calls, NewCall(members, "promises", n, promiseCache'[n].method,
                                         promiseCache'[n].form, "ZedClient", args))
    /\ UNCHANGED <<members, creds, closeCalls, closeInvocations, got, lookups>>

CallPromise(n) == CallPromiseB(n, MaxCalls)

\* client.promises.close(): the promisified composed close runs, and never
\* calls the callback promisify appended
ClosePromise ==
    /\ Len(calls) < MaxCalls
    /\ closeInvocations < MaxClose
    /\ ZedPromiseClient_get(members, promiseCache, built, "close").owner = "ZedPromiseClient"
    /\ promiseCache' = ZedPromiseClient_cache(members, promiseCache, built, "close")
    /\ built' = ZedPromiseClient_built(members, promiseCache, built, "close")
    /\ closeInvocations' = closeInvocations + 1
    /\ closeCalls' = CloseEffect(members, promiseCache'["close"].method, "ZedClient", closeCalls)
    /\ calls' = Append(calls, NewCall(members, "promises", "close", promiseCache'["close"].method,
                                      promiseCache'["close"].form, "ZedClient", <<>>))
    /\ UNCHANGED <<members, creds, got, lookups>>

\* The stub delivers the outcome of a unary call to its callback
UnaryReply(i, reply) ==
    /\ calls[i].method.kind = "unary"
    /\ ~calls[i].reply.called
    /\ calls' = [calls EXCEPT
          ![i].reply = reply,
          ![i].cb = IF calls[i].form = "direct" THEN reply ELSE @,
          ![i].promise = IF calls[i].form = "promisify"
                         THEN PromisifyCallback(@, reply) ELSE @]
    /\ UNCHANGED <<members, creds, promiseCache, built, closeCalls, closeInvocations, got, lookups>>

\* The stream of a promise-style call emits 'data'. (A message on a stream
\* that was handed to the caller goes to the caller's own listeners and
\* changes nothing in this layer.)
StreamDataB(i, m, maxMsgs) ==
    /\ calls[i].stream = "open"
    /\ calls[i].form # "direct"
    /\ Len(calls[i].received) < maxMsgs
    /\ calls' = DataDelivered(calls, i, m)
    /\ UNCHANGED <<members, creds, promiseCache, built, closeCalls, closeInvocations, got, lookups>>

StreamData(i, m) == StreamDataB(i, m, MaxMsgs)

\* The stream of a call emits 'end', after its last message or after 'error'
StreamEnd(i) ==
    /\ calls[i].stream \in {"open", "errored"}
    /\ calls' = [calls EXCEPT
          ![i].stream = IF @ = "open" THEN "ended" ELSE "erroredEnded",
          ![i].promise = IF calls[i].form = "promisifyStream"
                         THEN OnEnd(@, calls[i].results) ELSE @]
    /\ UNCHANGED <<members, creds, promiseCache, built, closeCalls, closeInvocations, got, lookups>>

\* The stream of a call emits 'error'
StreamError(i, e) ==
    /\ calls[i].stream = "open"
    /\ calls' = [calls EXCEPT
          ![i].stream = "errored",
          ![i].streamErr = e,
          ![i].promise = IF calls[i].form = "promisifyStream" THEN OnError(@, e) ELSE @]
    /\ UNCHANGED <<members, creds, promiseCache, built, closeCalls, closeInvocations, got, lookups>>

Next ==
    \/ \E n \in Names : CallCallback(n)
    \/ \E n \in Names : CallPromise(n)
    \/ Close
    \/ ClosePromise
    \/ \E i \in DOMAIN calls : \E r \in Replies : UnaryReply(i, r)
    \/ \E i \in DOMAIN calls : \E m \in Msgs : StreamData(i, m)
    \/ \E i \in DOMAIN calls : StreamEnd(i)
    \/ \E i \in DOMAIN calls : \E e \in Errs : StreamError(i, e)

Spec == Init /\ [][Next]_vars

----------------------------------------------------------------------------
(* Name resolution as a function of the three namespaces *)

\* What a synthetic ServiceClient may hold at SyntheticName
SyntheticValues(c) ==
    {Undefined, Falsy(c, SyntheticName), Fn(c, SyntheticName, "unary")}

\* The construction of Init, over ServiceClients that may in addition define
\* SyntheticName
InitLookup ==
    /\ \E v \in [Clients -> UNION {SyntheticValues(c) : c \in Clients}] :
          /\ \A c \in Clients : v[c] \in SyntheticValues(c)
          /\ members = [c \in Clients |-> [ServiceClient(c) EXCEPT ![SyntheticName] = v[c]]]
    /\ creds = PrebuiltCreds
    /\ promiseCache = [n \in Names |-> NoEntry]
    /\ built = [n \in Names |-> 0]
    /\ closeCalls = [c \in Clients |-> 0]
    /\ closeInvocations = 0
    /\ calls = <<>>
    /\ got = NoLookup
    /\ lookups = 0

\* Reading property n of the ZedClient proxy, of the combined client and of
\* client.promises
LookupB(n, maxLookups) ==
    /\ lookups < maxLookups
    /\ lookups' = lookups + 1
    /\ got' = [name |-> n,
               unified |-> ZedClient_get(members, n),
               combined |-> ZedCombinedClient_get(members, n),
               promises |-> ZedPromiseClient_get(members, promiseCache, built, n)]
    /\ promiseCache' = ZedPromiseClient_cache(members, promiseCache, built, n)
    /\ built' = ZedPromiseClient_built(members, promiseCache, built, n)
    /\ UNCHANGED <<members, creds, closeCalls, closeInvocations, calls>>

Lookup(n) == LookupB(n, MaxLookups)

NextLookup ==
    \/ \E n \in Names : Lookup(n)
    \/ Close

SpecLookup == InitLookup /\ [][NextLookup]_vars

----------------------------------------------------------------------------
(* Accesses, calls and close() together *)

\* The names accessed and called: a streaming, a unary and the Watch
\* method, close, the promises accessor, a field, an inherited name and a
\* name no client defines
FrameNames ==
    {"readRelationships", "writeRelationships", "watch", "close", "promises",
     "_binaryOptions", "__proto__", SyntheticName}

LookupFrame(n) == LookupB(n, MaxFrameLookups)

CallCallbackFrame(n) == CallCallbackB(n, MaxFrameCalls)

CallPromiseFrame(n) == CallPromiseB(n, MaxFrameCalls)

NextFrame ==
    \/ \E n \in FrameNames : LookupFrame(n)
    \/ \E n \in FrameNames : CallCallbackFrame(n)
    \/ \E n \in FrameNames : CallPromiseFrame(n)
    \/ Close
    \/ ClosePromise
    \/ \E i \in DOMAIN calls : \E r \in Replies : UnaryReply(i, r)
    \/ \E i \in DOMAIN calls : StreamEnd(i)
    \/ \E i \in DOMAIN calls : \E e \in Errs : StreamError(i, e)

SpecFrame == Init /\ [][NextFrame]_vars

----------------------------------------------------------------------------
(* Several streaming calls in flight on client.promises *)

\* The streaming methods called concurrently
ConcurrentNames == {"readRelationships", "lookupSubjects"}

CallConcurrent(n) == CallPromiseB(n, MaxConcurrent)

StreamDataConcurrent(i, m) == StreamDataB(i, m, MaxConcMsgs)

NextConcurrent ==
    \/ \E n \in ConcurrentNames : CallConcurrent(n)
    \/ \E i \in DOMAIN calls : \E m \in Msgs : StreamDataConcurrent(i, m)
    \/ \E i \in DOMAIN calls : StreamEnd(i)
    \/ \E i \in DOMAIN calls : \E e \in Errs : StreamError(i, e)

SpecConcurrent == Init /\ [][NextConcurrent]_vars

----------------------------------------------------------------------------
(* The three construction paths *)

\* The clients NewClient, NewClientWithCustomCert and
\* NewClientWithChannelCredentials return
Constructions ==
    {NewClient("token"), NewClientWithCustomCert("token", "certificate"),
     NewClientWithChannelCredentials(PrebuiltCreds)}

InitConstruct ==
    /\ \E comp \in Constructions :
          /\ members = comp.members
          /\ creds = comp.creds
    /\ promiseCache = [n \in Names |-> NoEntry]
    /\ built = [n \in Names |-> 0]
    /\ closeCalls = [c \in Clients |-> 0]
    /\ closeInvocations = 0
    /\ calls = <<>>
    /\ got = NoLookup
    /\ lookups = 0

SpecConstruct == InitConstruct /\ [][NextLookup]_vars

----------------------------------------------------------------------------
(* Properties *)

\* The calls made through client.promises
PromiseCalls == {i \in DOMAIN calls : calls[i].surface = "promises"}

\* The three names the promise adapter is written to treat as streaming
StreamingSet == {"readRelationships", "lookupResources", "lookupSubjects"}

\* C1: every call, made through either surface, runs on the connection and
\* state of the ServiceClient that defines the called method.
C1_RunsOnDefiningClient ==
    \A i \in DOMAIN calls :
        calls[i].method.owner \in Clients => calls[i].ranOn = calls[i].method.owner

\* C2: for a name other than 'close', the ZedClient proxy returns the value
\* of the first of acl, ns, watch (in this order) that holds a truthy value
\* at that name.
C2_PriorityOrder ==
    got.name \notin {"none", "close"} =>
        /\ Truthy(members["acl"][got.name]) =>
              got.unified = members["acl"][got.name]
        /\ (~Truthy(members["acl"][got.name]) /\ Truthy(members["ns"][got.name])) =>
              got.unified = members["ns"][got.name]
        /\ (/\ ~Truthy(members["acl"][got.name])
            /\ ~Truthy(members["ns"][got.name])
            /\ Truthy(members["watch"][got.name])) =>
              got.unified = members["watch"][got.name]

\* C2 witness: a name that acl holds with a falsy value and that both ns and
\* watch define was looked up, and ns won.
C2_Witness ==
    /\ got.name = SyntheticName
    /\ members["acl"][SyntheticName].t = "falsy"
    /\ Truthy(members["ns"][SyntheticName])
    /\ Truthy(members["watch"][SyntheticName])
    /\ got.unified.owner = "ns"

\* C3: the promise of a promise-style call of readRelationships,
\* lookupResources or lookupSubjects is resolved exactly when the stream has
\* ended without error, and then holds the messages of the stream in receipt
\* order.
C3_StreamCollected ==
    \A i \in PromiseCalls :
        calls[i].name \in StreamingSet =>
            /\ calls[i].promise.state = "resolved" <=> calls[i].stream = "ended"
            /\ calls[i].promise.state = "resolved" =>
                  calls[i].promise.arr = calls[i].received

\* C3 witness: a streaming promise resolved to two different messages.
C3_Witness ==
    \E i \in PromiseCalls :
        /\ calls[i].name \in StreamingSet
        /\ calls[i].promise.state = "resolved"
        /\ calls[i].promise.arr = <<"B", "A">>

\* C4: once the stream of a promise-style streaming call has signalled an
\* error, the promise is rejected with that error, whatever was received
\* before and whatever follows.
C4_StreamErrorRejects ==
    \A i \in PromiseCalls :
        (calls[i].name \in StreamingSet /\ calls[i].stream \in {"errored", "erroredEnded"}) =>
            /\ calls[i].promise.state = "rejected"
            /\ calls[i].promise.val = calls[i].streamErr
            /\ calls[i].promise.arr = <<>>

\* C4 witness: a stream failed after two messages and then emitted 'end';
\* the promise stays rejected with the stream's error.
C4_Witness ==
    \E i \in PromiseCalls :
        /\ calls[i].name \in StreamingSet
        /\ Len(calls[i].received) = 2
        /\ calls[i].stream = "erroredEnded"
        /\ calls[i].streamErr = "E2"
        /\ calls[i].promise.state = "rejected"

\* C5: once the stub has delivered the outcome of a promise-style unary call,
\* the promise is resolved with the payload if the outcome is a success and
\* rejected with the very error if it is a failure.
C5_UnaryRoundTrip ==
    \A i \in PromiseCalls :
        (calls[i].method.kind = "unary" /\ calls[i].reply.called) =>
            IF calls[i].reply.err = "null"
            THEN /\ calls[i].promise.state = "resolved"
                 /\ calls[i].promise.val = calls[i].reply.value
            ELSE /\ calls[i].promise.state = "rejected"
                 /\ calls[i].promise.val = calls[i].reply.err

\* C5 witness: a promise-style unary call of a Schema method failed with E2
\* and its promise is rejected.
C5_Witness ==
    \E i \in PromiseCalls :
        /\ calls[i].method.kind = "unary"
        /\ calls[i].method.owner = "ns"
        /\ calls[i].reply = ErrReply("E2")
        /\ calls[i].promise.state = "rejected"

C7_CloseClosesEach ==
    /\ [](ZedCombinedClient_get(members, "close") = ZedClient_close)
    /\ [][closeInvocations' # closeInvocations =>
            /\ closeInvocations' = closeInvocations + 1
            /\ \A c \in Clients : closeCalls'[c] = closeCalls[c] + 1]_vars

\* C7 witness: after a single close() each ServiceClient was closed once.
C7_Witness ==
    /\ closeInvocations = 1
    /\ closeCalls = [c \in Clients |-> 1]

\* C8: a cache entry, once present, is never replaced or removed; a lookup
\* of a cached name on client.promises returns the cached callable; and no
\* name ever has a second adapted callable built for it.
C8_Memoized ==
    /\ [](\A n \in Names : built[n] <= 1)
    /\ [][\A n \in Names :
            promiseCache[n].present =>
                /\ promiseCache'[n] = promiseCache[n]
                /\ (lookups' # lookups /\ got'.name = n) =>
                      got'.promises = Adapted(n, promiseCache[n])]_vars

\* C8 witness: two lookups and a close() have happened, a single name is
\* cached, the last lookup was of that name and returned its first build.
C8_Witness ==
    /\ lookups = 2
    /\ closeInvocations >= 1
    /\ got.name = "checkPermission"
    /\ {n \in Names : promiseCache[n].present} = {"checkPermission"}
    /\ got.promises = Adapted("checkPermission", promiseCache["checkPermission"])
    /\ got.promises.gen = 1

\* C9: for every server-streaming method, the promise of a promise-style
\* call is resolved with the messages received once the stream has ended.
C9_EveryStreamCollected ==
    \A i \in PromiseCalls :
        (calls[i].method.kind = "stream" /\ calls[i].stream = "ended") =>
            /\ calls[i].promise.state = "resolved"
            /\ calls[i].promise.arr = calls[i].received

\* C10: in every state, every method name of the three services resolves to
\* a function on the combined client and on client.promises, and so did the
\* last lookup if it was of a method name.
C10_Complete ==
    /\ ZedCombinedClient_get(members, "promises") = promiseClient
    /\ \A n \in MethodNames :
          /\ ZedCombinedClient_get(members, n).t = "function"
          /\ ZedPromiseClient_get(members, promiseCache, built, n).t = "function"
    /\ got.name \in MethodNames =>
          /\ got.combined.t = "function"
          /\ got.promises.t = "function"

\* C10 witness: after a close() and an earlier lookup, the Watch method was
\* looked up and both surfaces returned a function.
C10_Witness ==
    /\ closeInvocations >= 1
    /\ lookups = 2
    /\ got.name = "watch"
    /\ got.combined.t = "function"
    /\ got.promises.t = "function"
    /\ got.promises.owner = "ZedPromiseClient"

\* C11: for every name other than 'promises' the combined client yields
\* what the ZedClient proxy yields; 'promises' yields the promise adapter
\* created at construction, and what that adapter wraps is what the same
\* ZedClient proxy holds.
C11_PassThrough ==
    /\ \A n \in Names \ {"promises"} :
          ZedCombinedClient_get(members, n) = ZedClient_get(members, n)
    /\ ZedCombinedClient_get(members, "promises") = promiseClient
    /\ got.name \notin {"none", "promises"} => got.combined = got.unified
    /\ got.name = "promises" => got.combined = promiseClient
    /\ \A n \in Names :
          promiseCache[n].present => promiseCache[n].method = ZedClient_get(members, n)

\* C11 witness: after a Schema method was adapted, 'promises' was looked up
\* on the combined client and yielded the promise adapter.
C11_Witness ==
    /\ lookups = 2
    /\ got.name = "promises"
    /\ got.combined = promiseClient
    /\ promiseCache["readSchema"].present
    /\ promiseCache["readSchema"].method = Fn("ns", "readSchema", "unary")

\* C12: 'close' is not adapted on client.promises: a lookup of 'close' there
\* yields the shutdown operation the combined client yields.
C12_CloseNotAdapted ==
    got.name = "close" =>
        /\ got.promises = got.combined
        /\ ~promiseCache["close"].present

\* No ServiceClient holds a truthy value at n
NoTruthy(n) == \A c \in Clients : ~Truthy(members[c][n])

\* C18: a name, other than 'close' and 'promises', at which no ServiceClient
\* holds a truthy value resolves to undefined on the ZedClient proxy, on the
\* combined client and on client.promises, and never gets a cache entry.
C18_UndefinedName ==
    /\ (got.name \notin {"none", "close", "promises"} /\ NoTruthy(got.name)) =>
          /\ got.unified = Undefined
          /\ got.combined = Undefined
          /\ got.promises = Undefined
    /\ \A n \in Names \ {"close", "promises"} :
          NoTruthy(n) => ~promiseCache[n].present

\* C18 witness: a name that acl holds with a falsy value and that ns and
\* watch do not define was looked up twice and resolved to undefined.
C18_Witness ==
    /\ lookups = 2
    /\ got.name = SyntheticName
    /\ members["acl"][SyntheticName].t = "falsy"
    /\ NoTruthy(SyntheticName)
    /\ got.promises = Undefined
    /\ \A n \in Names : ~promiseCache[n].present

\* C19: a name outside the streaming set whose value on the client is
\* present and not a function resolves on client.promises to that very
\* value, and never gets a cache entry.
C19_NonFunctionTransparent ==
    /\ (got.name \notin ({"none"} \cup StreamingSet)
            /\ got.unified.t \notin {"undefined", "function"}) =>
          /\ got.promises = got.unified
          /\ got.promises = got.combined
    /\ \A n \in Names \ StreamingSet :
          ZedClient_get(members, n).t \notin {"undefined", "function"} =>
              ~promiseCache[n].present

\* The names that resolve to something on the combined client
CallbackSurface(mem) == {n \in Names : ZedCombinedClient_get(mem, n) # Undefined}

\* The names that resolve to something on client.promises
PromiseSurface(mem, cache, blt) ==
    {n \in Names : ZedPromiseClient_get(mem, cache, blt, n) # Undefined}

\* C14: whichever of the three construction functions built the client, the
\* names that resolve on the combined client and on client.promises are
\* those of a client built by NewClientWithChannelCredentials, and every
\* service method is among them.
C14_SameSurface ==
    /\ CallbackSurface(members) =
          CallbackSurface(NewClientWithChannelCredentials(PrebuiltCreds).members)
    /\ PromiseSurface(members, promiseCache, built) =
          PromiseSurface(NewClientWithChannelCredentials(PrebuiltCreds).members,
                         promiseCache, built)
    /\ MethodNames \subseteq CallbackSurface(members)
    /\ MethodNames \subseteq PromiseSurface(members, promiseCache, built)

\* C14 witness: on a client built from a token and a certificate, the Watch
\* method was looked up and resolved on both surfaces.
C14_Witness ==
    /\ creds.kind = "token+cert"
    /\ got.name = "watch"
    /\ got.combined.t = "function"
    /\ got.promises.t = "function"
    /\ "watch" \in PromiseSurface(members, promiseCache, built)

\* The calls made through a callable that util.promisify adapted
PromisifiedCalls == {i \in DOMAIN calls : calls[i].form = "promisify"}

\* C13: a promise-adapted unary callable invokes the underlying method with
\* the ZedClient as receiver and with the caller's arguments, each in its
\* place, followed by exactly one callback.
C13_ArgumentsForwarded ==
    \A i \in PromisifiedCalls :
        /\ calls[i].receiver = "ZedClient"
        /\ calls[i].method = ZedClient_get(members, calls[i].name)
        /\ Len(calls[i].passed) = Len(calls[i].args) + 1
        /\ \A k \in 1..Len(calls[i].args) : calls[i].passed[k] = calls[i].args[k]
        /\ calls[i].passed[Len(calls[i].passed)] = "callback"
        /\ "callback" \notin {calls[i].args[k] : k \in 1..Len(calls[i].args)}

\* C13 witness: writeRelationships was called on client.promises with a
\* request, metadata and call options, and the stub has replied.
C13_Witness ==
    \E i \in PromisifiedCalls :
        /\ calls[i].name = "writeRelationships"
        /\ calls[i].args = <<"input", "metadata", "options">>
        /\ calls[i].passed = <<"input", "metadata", "options", "callback">>
        /\ calls[i].promise.state = "resolved"

\* The calls made through a callable that promisifyStream adapted
StreamAdaptedCalls == {i \in PromiseCalls : calls[i].name \in StreamingSet}

\* How a stream-adapted call stands with its caller once its stream is no
\* longer open: resolved with what was received if it ended, rejected with
\* the error if it failed
SignalledFor(call) ==
    IF call.stream = "ended"
    THEN [state |-> "resolved", arr |-> call.received, val |-> "undefined"]
    ELSE [state |-> "rejected", arr |-> <<>>, val |-> call.streamErr]

\* C15: a promise-adapted streaming call is pending exactly while its stream
\* is open; when the stream ends or fails the promise is settled at that
\* step, with the buffer or with the error; and a settled promise never
\* changes again, whatever event follows (an 'end' after an 'error' included).
C15_SignalledOnce ==
    /\ [](\A i \in StreamAdaptedCalls :
            /\ calls[i].stream = "open" <=> calls[i].promise.state = "pending"
            /\ calls[i].stream # "open" => calls[i].promise = SignalledFor(calls[i]))
    /\ [][\A i \in StreamAdaptedCalls :
            calls[i].promise.state # "pending" =>
                /\ i \in DOMAIN calls'
                /\ calls'[i].promise = calls[i].promise]_vars

\* C15 witness: a streaming call on client.promises whose stream failed
\* before any message and then ended; the promise is rejected with the error.
C15_Witness ==
    \E i \in StreamAdaptedCalls :
        /\ calls[i].received = <<>>
        /\ calls[i].stream = "erroredEnded"
        /\ calls[i].streamErr = "E1"
        /\ calls[i].promise = [state |-> "rejected", arr |-> <<>>, val |-> "E1"]

\* The calls of a service method through client.promises
PromiseMethodCalls == {i \in PromiseCalls : calls[i].method.kind \in {"unary", "stream"}}

\* The error the transport ended call with, "null" if it has not failed it
TransportError(call) ==
    IF call.method.kind = "unary" THEN call.reply.err ELSE call.streamErr

\* C17: close() reaches the connections of both surfaces, and a
\* promise-style call of a service method, unary or streaming, that the
\* transport has failed on a closed connection is rejected, not pending.
C17_CloseFailsPending ==
    /\ closeInvocations >= 1 => \A c \in Clients : closeCalls[c] >= 1
    /\ \A i \in DOMAIN calls :
          closeInvocations >= 1 => closeCalls[calls[i].ranOn] >= 1
    /\ \A i \in PromiseMethodCalls :
          (closeCalls[calls[i].ranOn] >= 1 /\ TransportError(calls[i]) # "null") =>
              calls[i].promise.state = "rejected"

\* C20: every call record stands for one invocation of the stub, and every
\* error the underlying call produced has reached the caller: in the
\* callback's error slot for a unary call on the callback surface, as the
\* rejection of the promise on client.promises.
C20_NoFailureSuppressed ==
    \A i \in DOMAIN calls :
        (calls[i].method.kind \in {"unary", "stream"} /\ TransportError(calls[i]) # "null") =>
            /\ calls[i].surface = "promises" =>
                  calls[i].promise = [state |-> "rejected", arr |-> <<>>,
                                      val |-> TransportError(calls[i])]
            /\ (calls[i].surface = "callback" /\ calls[i].method.kind = "unary") =>
                  calls[i].cb.err = calls[i].reply.err

\* C16: with several streaming calls of client.promises in flight, made
\* through one memoized callable for each name, each call's buffer and
\* result hold the messages of its own stream in receipt order, a call is
\* rejected only by the error of its own stream, a pending call prevents
\* neither a new call nor the events of another call, and an event on one
\* stream changes no other call.
C16_Independent ==
    /\ [](\A i \in StreamAdaptedCalls :
            /\ calls[i].results = calls[i].received
            /\ calls[i].method = ZedClient_get(members, calls[i].name)
            /\ promiseCache[calls[i].name].gen = 1
            /\ calls[i].promise.state = "resolved" =>
                  calls[i].stream = "ended" /\ calls[i].promise.arr = calls[i].received
            /\ calls[i].promise.state = "rejected" <=>
                  calls[i].stream \in {"errored", "erroredEnded"}
            /\ calls[i].promise.state = "rejected" =>
                  calls[i].promise.val = calls[i].streamErr)
    /\ [](Len(calls) < MaxConcurrent =>
            \A n \in ConcurrentNames : ENABLED CallConcurrent(n))
    /\ [](\A i \in StreamAdaptedCalls :
            calls[i].stream = "open" =>
                /\ ENABLED StreamEnd(i)
                /\ \A e \in Errs : ENABLED StreamError(i, e))
    /\ [][\A i \in DOMAIN calls :
            /\ i \in DOMAIN calls'
            /\ calls'[i] # calls[i] =>
                  \A j \in DOMAIN calls \ {i} : calls'[j] = calls[j]]_vars

\* C16 witness: two calls of readRelationships through the one memoized
\* callable; the first is still pending with a message received, the second
\* has completed with its own message.
C16_Witness ==
    /\ Len(calls) = 2
    /\ built["readRelationships"] = 1
    /\ calls[1].name = "readRelationships"
    /\ calls[2].name = "readRelationships"
    /\ calls[1].stream = "open"
    /\ calls[1].received = <<"A">>
    /\ calls[1].promise.state = "pending"
    /\ calls[2].promise = [state |-> "resolved", arr |-> <<"B">>, val |-> "undefined"]

\* The names whose cache entry a step changes
CacheChanged == {n \in Names : promiseCache'[n] # promiseCache[n]}

\* A step in which name n is read on client.promises: a lookup of n, or a
\* call of n made through client.promises
AccessedOnPromises(n) ==
    \/ lookups' = lookups + 1 /\ got'.name = n
    \/ /\ Len(calls') = Len(calls) + 1
       /\ calls'[Len(calls')].surface = "promises"
       /\ calls'[Len(calls')].name = n

\* A step in which a method is read and called on the callback surface
CalledOnCallback ==
    /\ Len(calls') = Len(calls) + 1
    /\ calls'[Len(calls')].surface = "callback"

\* C21: no access, call, reply, stream event or close() changes the three
\* ServiceClients or the credentials they were built with; a step changes
\* at most one cache entry, that of the name read on client.promises in that
\* step, and only if the name had no entry and resolves to a function; a
\* call on the callback surface changes no cache entry.
C21_FrameEffect ==
    [][/\ members' = members
       /\ creds' = creds
       /\ \A n \in Names : ZedCombinedClient_get(members', n) = ZedCombinedClient_get(members, n)
       /\ \A n \in CacheChanged :
             /\ AccessedOnPromises(n)
             /\ ~promiseCache[n].present
             /\ ZedClient_get(members, n).t = "function"
             /\ promiseCache'[n].present
             /\ promiseCache'[n].method = ZedClient_get(members, n)
             /\ CacheChanged = {n}
       /\ \A n \in Names : built'[n] # built[n] => n \in CacheChanged
       /\ CalledOnCallback => promiseCache' = promiseCache /\ built' = built]_vars

\* C21 witness: writeRelationships was called through client.promises,
\* close() was invoked and the field _binaryOptions was read: the cache holds
\* the entry of writeRelationships and no other.
C21_Witness ==
    /\ Len(calls) = 1
    /\ calls[1].surface = "promises"
    /\ calls[1].name = "writeRelationships"
    /\ closeInvocations >= 1
    /\ lookups = 1
    /\ got.name = "_binaryOptions"
    /\ got.promises = Obj("acl", "_binaryOptions")
    /\ promiseCache["writeRelationships"].present
    /\ \A n \in Names \ {"writeRelationships"} : ~promiseCache[n].present
    /\ members = NewClientWithChannelCredentials(PrebuiltCreds).members

====
